---- MODULE Spec2Model ----
(***************************************************************************)
(* Model of packages/conditions/src/executeCondition.ts (typebot.io): the  *)
(* evaluation of a Condition (a logical operator and a list of             *)
(* Comparisons) against a list of Variable bindings.                       *)
(*                                                                         *)
(* A JavaScript string is a sequence of one-character TLA+ strings         *)
(* (<<"a", "b">> is "ab").  Two tokens stand for non-ASCII code points:    *)
(* "U+0301" (combining acute accent) and "U+00E1" (a with acute).          *)
(* A value is a tagged record: Null, Undef, Str(s) or Arr(<<s1, ...>>).    *)
(* The outcome of an evaluation is "true", "false" or "throw" (an          *)
(* exception that leaves the function).                                    *)
(***************************************************************************)
EXTENDS Integers, Sequences, FiniteSets, TLC

VARIABLES variant, variables, condition, hostDate, result, pc

vars == <<variant, variables, condition, hostDate, result, pc>>

----------------------------------------------------------------------------
(* Values *)

Null == [t |-> "null"]
Undef == [t |-> "undef"]
Str(s) == [t |-> "str", s |-> s]
Arr(a) == [t |-> "arr", a |-> a]

IsStr(v) == v.t = "str"
IsArr(v) == v.t = "arr"

\* lib/utils: isDefined / isNotDefined
isDefined(v) == v.t # "undef" /\ v.t # "null"
isNotDefined(v) == v.t = "undef" \/ v.t = "null"

\* JavaScript truthiness of a value of type string | string[] | null | undefined
Truthy(v) == IsArr(v) \/ (IsStr(v) /\ v.s # <<>>)

\* value.length of a string or an array
LengthOf(v) == IF IsStr(v) THEN Len(v.s) ELSE Len(v.a)

\* Outcomes
B(b) == IF b THEN "true" ELSE "false"

MinOf(S) == CHOOSE x \in S : \A y \in S : x <= y

\* Array.prototype.every: the first callback outcome that is not true decides
Every(outs) ==
  LET bad == {i \in 1..Len(outs) : outs[i] # "true"}
  IN IF bad = {} THEN "true" ELSE outs[MinOf(bad)]

\* Array.prototype.some: the first callback outcome that is not false decides
Some(outs) ==
  LET hit == {i \in 1..Len(outs) : outs[i] # "false"}
  IN IF hit = {} THEN "false" ELSE outs[MinOf(hit)]

----------------------------------------------------------------------------
(* String primitives *)

ToLowerChar(c) ==
  CASE c = "A" -> "a"
    [] c = "B" -> "b"
    [] c = "H" -> "h"
    [] c = "X" -> "x"
    [] OTHER -> c

\* String.prototype.toLowerCase
toLowerCase(s) == [i \in 1..Len(s) |-> ToLowerChar(s[i])]

IsSpace(c) == c = " "

RECURSIVE TrimStart(_)
TrimStart(s) ==
  IF s # <<>> /\ IsSpace(Head(s)) THEN TrimStart(Tail(s)) ELSE s

RECURSIVE TrimEnd(_)
TrimEnd(s) ==
  IF s # <<>> /\ IsSpace(s[Len(s)]) THEN TrimEnd(SubSeq(s, 1, Len(s) - 1)) ELSE s

\* String.prototype.trim
trim(s) == TrimEnd(TrimStart(s))

\* String.prototype.normalize (NFC): "a" followed by the combining acute
\* accent composes to the precomposed letter
RECURSIVE normalize(_)
normalize(s) ==
  IF s = <<>> THEN <<>>
  ELSE IF Len(s) >= 2 /\ s[1] = "a" /\ s[2] = "U+0301"
       THEN <<"U+00E1">> \o normalize(SubSeq(s, 3, Len(s)))
       ELSE <<Head(s)>> \o normalize(Tail(s))

\* String.prototype.includes
includes(s, sub) ==
  \E i \in 1..(Len(s) + 1) :
     i + Len(sub) - 1 <= Len(s) /\ SubSeq(s, i, i + Len(sub) - 1) = sub

\* String.prototype.startsWith / endsWith
startsWithStr(s, sub) == Len(sub) <= Len(s) /\ SubSeq(s, 1, Len(sub)) = sub
endsWithStr(s, sub) ==
  Len(sub) <= Len(s) /\ SubSeq(s, Len(s) - Len(sub) + 1, Len(s)) = sub

\* a.toLowerCase().trim().normalize()
Canon(s) == normalize(trim(toLowerCase(s)))

----------------------------------------------------------------------------
(* Callbacks of the text operators.  a and b are string | null. *)

\* CONTAINS, array input: `equal`
equal(a, b) ==
  IF IsStr(a) /\ IsStr(b)
  THEN B(normalize(a.s) = normalize(b.s))
  ELSE B(a # b)

\* CONTAINS, scalar input: `contains`
contains(a, b) ==
  IF ~Truthy(b) \/ ~Truthy(a)
  THEN "false"
  ELSE B(includes(Canon(a.s), Canon(b.s)))

\* NOT_CONTAINS, array input: `notEqual`
notEqual(a, b) ==
  IF IsStr(a) /\ IsStr(b)
  THEN B(normalize(a.s) # normalize(b.s))
  ELSE B(a # b)

\* notContains without .trim()
notContains_untrimmed(a, b) ==
  IF ~Truthy(b) \/ ~Truthy(a)
  THEN "true"
  ELSE B(~includes(normalize(toLowerCase(a.s)), normalize(toLowerCase(b.s))))

\* NOT_CONTAINS, scalar input: `notContains`
notContains(a, b) ==
  IF ~Truthy(b) \/ ~Truthy(a)
  THEN "true"
  ELSE B(~includes(Canon(a.s), Canon(b.s)))

\* EQUAL on the strings as they are, without .normalize()
equalStrings_raw(a, b) == B(a = b)

\* EQUAL: the arrow function given to compare
equalStrings(a, b) ==
  IF IsStr(a) /\ IsStr(b)
  THEN B(normalize(a.s) = normalize(b.s))
  ELSE B(a = b)

\* NOT_EQUAL: the arrow function given to compare
notEqualStrings(a, b) ==
  IF IsStr(a) /\ IsStr(b)
  THEN B(normalize(a.s) # normalize(b.s))
  ELSE B(a # b)

\* STARTS_WITH: `startsWith`
startsWith(a, b) ==
  IF ~Truthy(b) \/ ~Truthy(a)
  THEN "false"
  ELSE B(startsWithStr(Canon(a.s), Canon(b.s)))

\* ENDS_WITH: `endsWith`
endsWith(a, b) ==
  IF ~Truthy(b) \/ ~Truthy(a)
  THEN "false"
  ELSE B(endsWithStr(Canon(a.s), Canon(b.s)))

----------------------------------------------------------------------------
(* Numbers.  A JavaScript number is NaN or an integer here. *)

NaN == [nan |-> TRUE, n |-> 0]
Num(k) == [nan |-> FALSE, n |-> k]

\* x > y and x < y on numbers: false as soon as one side is NaN
NumGreater(x, y) == ~x.nan /\ ~y.nan /\ x.n > y.n
NumLess(x, y) == ~x.nan /\ ~y.nan /\ x.n < y.n

Digits == {"0", "1", "2", "3", "4", "5", "6", "7", "8", "9"}

DigitVal(c) ==
  CASE c = "0" -> 0 [] c = "1" -> 1 [] c = "2" -> 2 [] c = "3" -> 3
    [] c = "4" -> 4 [] c = "5" -> 5 [] c = "6" -> 6 [] c = "7" -> 7
    [] c = "8" -> 8 [] c = "9" -> 9

AllDigits(s) == \A i \in 1..Len(s) : s[i] \in Digits

RECURSIVE DecimalVal(_)
DecimalVal(s) ==
  IF s = <<>> THEN 0
  ELSE 10 * DecimalVal(SubSeq(s, 1, Len(s) - 1)) + DigitVal(s[Len(s)])

\* Number(string): StringToNumber on the trimmed text.  The strings of the
\* model hold decimal digits, signs, blanks and letters that start no
\* numeric literal (no ".", "e", "x", "Infinity").
Number(s) ==
  LET t == trim(s)
      signed == t # <<>> /\ Head(t) \in {"-", "+"}
      body == IF signed THEN Tail(t) ELSE t
  IN IF t = <<>> THEN Num(0)
     ELSE IF body # <<>> /\ AllDigits(body)
          THEN IF signed /\ Head(t) = "-"
               THEN Num(0 - DecimalVal(body))
               ELSE Num(DecimalVal(body))
          ELSE NaN

IsLeap(y) == (y % 4 = 0 /\ y % 100 # 0) \/ y % 400 = 0

DaysInMonth(y, m) ==
  IF m = 2 THEN (IF IsLeap(y) THEN 29 ELSE 28)
  ELSE IF m \in {4, 6, 9, 11} THEN 30 ELSE 31

\* Days from 1970-01-01 to the civil date y-m-d
DaysFromCivil(y, m, d) ==
  LET yy == IF m <= 2 THEN y - 1 ELSE y
      era == yy \div 400
      yoe == yy - era * 400
      mp == (m + 9) % 12
      doy == (153 * mp + 2) \div 5 + d - 1
      doe == yoe * 365 + yoe \div 4 - yoe \div 100 + doy
  IN era * 146097 + doe - 719468

\* The shape of the ECMAScript date-only forms YYYY-MM and YYYY-MM-DD
IsoShape(s) ==
  /\ Len(s) \in {7, 10}
  /\ AllDigits(SubSeq(s, 1, 4)) /\ s[5] = "-" /\ AllDigits(SubSeq(s, 6, 7))
  /\ (Len(s) = 10 => (s[8] = "-" /\ AllDigits(SubSeq(s, 9, 10))))

HasDigit(s) == \E i \in 1..Len(s) : s[i] \in Digits

\* A string whose parse the language leaves to the host: it is not of the
\* date-time string format and holds a digit
HostParsed(s) == ~IsoShape(s) /\ HasDigit(s)

\* Date.parse(string) in milliseconds, with `host` the host's answer for the
\* strings whose format the language does not define.  TLC's integers have
\* 32 bits: the dates of the model lie within 24 days of 1970-01-01.
DateParse(s, host) ==
  IF IsoShape(s)
  THEN LET y == DecimalVal(SubSeq(s, 1, 4))
           m == DecimalVal(SubSeq(s, 6, 7))
           d == IF Len(s) = 10 THEN DecimalVal(SubSeq(s, 9, 10)) ELSE 1
       IN IF m \in 1..12 /\ d \in 1..DaysInMonth(y, m)
          THEN Num(DaysFromCivil(y, m, d) * 86400000)
          ELSE NaN
  ELSE IF HasDigit(s) THEN host[s] ELSE NaN

\* parseDateOrNumber with 0 in place of a NaN time
parseDateOrNumber_zero(value, host) ==
  LET parsed == Number(value)
      time == DateParse(value, host)
  IN IF parsed.nan THEN (IF time.nan THEN Num(0) ELSE time) ELSE parsed

parseDateOrNumber(value, host) ==
  LET parsed == Number(value)
  IN IF parsed.nan THEN DateParse(value, host) ELSE parsed

\* GREATER
greater(inputValue, value, host) ==
  IF isNotDefined(inputValue) \/ isNotDefined(value) THEN "false"
  ELSE IF IsStr(inputValue)
       THEN IF IsStr(value)
            THEN B(NumGreater(parseDateOrNumber(inputValue.s, host),
                              parseDateOrNumber(value.s, host)))
            ELSE B(NumGreater(Number(inputValue.s), Num(Len(value.a))))
       ELSE IF IsStr(value)
            THEN B(NumGreater(Num(Len(inputValue.a)), Number(value.s)))
            ELSE B(Len(inputValue.a) > Len(value.a))

\* LESS
less(inputValue, value, host) ==
  IF isNotDefined(inputValue) \/ isNotDefined(value) THEN "false"
  ELSE IF IsStr(inputValue)
       THEN IF IsStr(value)
            THEN B(NumLess(parseDateOrNumber(inputValue.s, host),
                           parseDateOrNumber(value.s, host)))
            ELSE B(NumLess(Number(inputValue.s), Num(Len(value.a))))
       ELSE IF IsStr(value)
            THEN B(NumLess(Num(Len(inputValue.a)), Number(value.s)))
            ELSE B(Len(inputValue.a) < Len(value.a))

\* isSet without the test of the length
isSet_anyLength(inputValue) == B(isDefined(inputValue))

\* IS_SET
isSet(inputValue) == B(isDefined(inputValue) /\ LengthOf(inputValue) > 0)

\* IS_EMPTY
isEmpty(inputValue) == B(isNotDefined(inputValue) \/ LengthOf(inputValue) = 0)

----------------------------------------------------------------------------
(* Regular expressions *)

FlagChars == {"g", "i", "m", "u", "y"}

\* regex.match(/\/(.+)\/([gimuy]*)$/): the leftmost "/" that starts a match,
\* the greedy (.+) ending at the last "/" that only flags follow
preprocessRegex(regex) ==
  LET n == Len(regex)
      closes(i) == {j \in (i + 2)..n :
                      /\ regex[j] = "/"
                      /\ \A k \in (j + 1)..n : regex[k] \in FlagChars}
      opens == {i \in 1..n : regex[i] = "/" /\ closes(i) # {}}
  IN IF opens = {}
     THEN [pattern |-> regex, flags |-> <<>>]
     ELSE LET i == MinOf(opens)
              j == CHOOSE x \in closes(i) : \A y \in closes(i) : y <= x
          IN [pattern |-> SubSeq(regex, i + 1, j - 1),
              flags |-> SubSeq(regex, j + 1, n)]

\* Parenthesis depth after reading the pattern, -1 once a ")" closes nothing
RECURSIVE ParenDepth(_, _)
ParenDepth(p, depth) ==
  IF depth < 0 \/ p = <<>> THEN depth
  ELSE ParenDepth(Tail(p),
                  CASE Head(p) = "(" -> depth + 1
                    [] Head(p) = ")" -> depth - 1
                    [] OTHER -> depth)

\* new RegExp(pattern, flags) throws a SyntaxError: a flag given twice, or a
\* group left open or closed twice.  The patterns of the model are made of
\* literal characters and of "(" and ")".
RegExpThrows(pattern, flags) ==
  \/ \E i, j \in 1..Len(flags) : i # j /\ flags[i] = flags[j]
  \/ ParenDepth(pattern, 0) # 0

\* The characters a pattern of literals and groups has to read in a row
Literals(pattern) == SelectSeq(pattern, LAMBDA c : c \notin {"(", ")"})

\* new RegExp(pattern, flags).test(a) for a pattern that compiles
RegExpTest(pattern, flags, a) ==
  IF \E k \in 1..Len(flags) : flags[k] = "i"
  THEN includes(toLowerCase(a), toLowerCase(Literals(pattern)))
  ELSE includes(a, Literals(pattern))

\* MATCHES_REGEX: `matchesRegex`
matchesRegex(a, b) ==
  IF ~Truthy(b) \/ ~Truthy(a) THEN "false"
  ELSE LET regex == preprocessRegex(b.s)
       IN IF regex.pattern = <<>> THEN "false"
          ELSE IF RegExpThrows(regex.pattern, regex.flags) THEN "throw"
          ELSE B(RegExpTest(regex.pattern, regex.flags, a.s))

\* NOT_MATCH_REGEX: `matchesRegex`
notMatchRegex(a, b) ==
  IF ~Truthy(b) \/ ~Truthy(a) THEN "false"
  ELSE LET regex == preprocessRegex(b.s)
       IN IF regex.pattern = <<>> THEN "true"
          ELSE IF RegExpThrows(regex.pattern, regex.flags) THEN "throw"
          ELSE B(~RegExpTest(regex.pattern, regex.flags, a.s))

----------------------------------------------------------------------------
(* compare: the scalar / array broadcasting rule *)

\* compareStrings(a, b), for the callback that compareStrings names
call(compareStrings, a, b) ==
  CASE compareStrings = "equal" -> equal(a, b)
    [] compareStrings = "contains" -> contains(a, b)
    [] compareStrings = "notEqual" -> notEqual(a, b)
    [] compareStrings = "notContains" -> notContains(a, b)
    [] compareStrings = "EQUAL" -> equalStrings(a, b)
    [] compareStrings = "NOT_EQUAL" -> notEqualStrings(a, b)
    [] compareStrings = "startsWith" -> startsWith(a, b)
    [] compareStrings = "endsWith" -> endsWith(a, b)
    [] compareStrings = "matchesRegex" -> matchesRegex(a, b)
    [] compareStrings = "notMatchRegex" -> notMatchRegex(a, b)

compare(compareStrings, a, b, type) ==
  IF ~Truthy(a) \/ IsStr(a)
  THEN IF ~Truthy(b) \/ IsStr(b)
       THEN call(compareStrings, a, b)
       ELSE LET outs == [j \in 1..Len(b.a) |-> call(compareStrings, a, Str(b.a[j]))]
            IN IF type = "every" THEN Every(outs) ELSE Some(outs)
  ELSE IF ~Truthy(b) \/ IsStr(b)
       THEN LET outs == [i \in 1..Len(a.a) |-> call(compareStrings, Str(a.a[i]), b)]
            IN IF type = "every" THEN Every(outs) ELSE Some(outs)
       ELSE IF type = "every"
            THEN Every([i \in 1..Len(a.a) |->
                   Every([j \in 1..Len(b.a) |->
                            call(compareStrings, Str(a.a[i]), Str(b.a[j]))])])
            ELSE Some([i \in 1..Len(a.a) |->
                   Some([j \in 1..Len(b.a) |->
                           call(compareStrings, Str(a.a[i]), Str(b.a[j]))])])

----------------------------------------------------------------------------
(* String similarity *)

\* String.prototype.split("|")
RECURSIVE split(_)
split(s) ==
  LET bars == {i \in 1..Len(s) : s[i] = "|"}
  IN IF bars = {} THEN <<s>>
     ELSE LET i == MinOf(bars)
          IN <<SubSeq(s, 1, i - 1)>> \o split(SubSeq(s, i + 1, Len(s)))

\* A similarity is the fraction num / den; den = 0 is NaN (0 / 0)
SimGreater(x, y) == x.den # 0 /\ y.den # 0 /\ x.num * y.den > y.num * x.den

\* The loop keeping the similarity of the last candidate
MaxSimilarity_last(sims, maxSimilarity) ==
  IF sims = <<>> THEN maxSimilarity ELSE sims[Len(sims)]

\* The loop over the candidates: the maximum of the similarities, from 0
RECURSIVE MaxSimilarity(_, _)
MaxSimilarity(sims, maxSimilarity) ==
  IF sims = <<>> THEN maxSimilarity
  ELSE MaxSimilarity(Tail(sims),
         IF SimGreater(Head(sims), maxSimilarity) THEN Head(sims)
         ELSE maxSimilarity)

\* executeCondition.ts: the frequency of each character of the lowercased
\* string
getBagOfNumbers(str) ==
  LET low == toLowerCase(str)
  IN [c \in {low[i] : i \in 1..Len(low)} |->
        Cardinality({i \in 1..Len(low) : low[i] = c})]

RECURSIVE SumOver(_, _)
SumOver(f, S) ==
  IF S = {} THEN 0
  ELSE LET x == CHOOSE y \in S : TRUE IN f[x] + SumOver(f, S \ {x})

\* executeCondition.ts: cosine similarity of the two frequency vectors,
\* dotProduct / (sqrt(n1) * sqrt(n2)).  It is kept as its square, the
\* fraction dotProduct^2 / (n1 * n2), which orders the same way.
compareStringsBagOfNumbers(str1, str2) ==
  LET bag1 == getBagOfNumbers(str1)
      bag2 == getBagOfNumbers(str2)
      allChars == DOMAIN bag1 \cup DOMAIN bag2
      vec1 == [c \in allChars |-> IF c \in DOMAIN bag1 THEN bag1[c] ELSE 0]
      vec2 == [c \in allChars |-> IF c \in DOMAIN bag2 THEN bag2[c] ELSE 0]
      dotProduct == SumOver([c \in allChars |-> vec1[c] * vec2[c]], allChars)
      n1 == SumOver([c \in allChars |-> vec1[c] * vec1[c]], allChars)
      n2 == SumOver([c \in allChars |-> vec2[c] * vec2[c]], allChars)
  IN IF n1 = 0 \/ n2 = 0
     THEN [num |-> 0, den |-> 1]
     ELSE [num |-> dotProduct * dotProduct, den |-> n1 * n2]

\* executeCondition.ts, STRING_SIMILARITY: maxSimilarity > 0.5, on the square
stringSimilarity(inputValue, value) ==
  IF IsStr(inputValue)
  THEN IF ~IsStr(value) THEN "throw"
       ELSE LET values == split(value.s)
                sims == [k \in 1..Len(values) |->
                           compareStringsBagOfNumbers(inputValue.s, values[k])]
                maxSimilarity == MaxSimilarity(sims, [num |-> 0, den |-> 1])
            IN B(4 * maxSimilarity.num > maxSimilarity.den)
  ELSE "false"

Min3(x, y, z) == IF x <= y /\ x <= z THEN x ELSE IF y <= z THEN y ELSE z

\* One row of the matrix: row[j + 1] is matrix[i][j]
RECURSIVE LevRow(_, _, _, _)
LevRow(prev, ch, str2, row) ==
  LET j == Len(row)
  IN IF j > Len(str2) THEN row
     ELSE LevRow(prev, ch, str2,
            Append(row, Min3(prev[j + 1] + 1,
                             row[j] + 1,
                             prev[j] + (IF ch = str2[j] THEN 0 ELSE 1))))

RECURSIVE LevRows(_, _, _, _)
LevRows(str1, str2, i, prev) ==
  IF i > Len(str1) THEN prev
  ELSE LevRows(str1, str2, i + 1, LevRow(prev, str1[i], str2, <<i>>))

\* part_000: the Levenshtein distance, matrix[m][n]
levenshtein(str1, str2) ==
  LevRows(str1, str2, 1, [j \in 1..(Len(str2) + 1) |-> j - 1])[Len(str2) + 1]

Max2(x, y) == IF x >= y THEN x ELSE y

\* part_000: compareStringsBagOfNumbers, (maxLength - distancia) / maxLength
compareStringsLevenshtein(str1, str2) ==
  LET distancia == levenshtein(str1, str2)
      maxLength == Max2(Len(str1), Len(str2))
  IN [num |-> maxLength - distancia, den |-> maxLength]

\* part_000: compararValores, maxSimilarity > 0.8
compararValores(inputValue, value) ==
  IF IsStr(inputValue)
  THEN IF Truthy(value) /\ IsStr(value)
       THEN LET values == split(value.s)
                sims == [k \in 1..Len(values) |->
                           compareStringsLevenshtein(inputValue.s, values[k])]
                maxSimilarity == MaxSimilarity(sims, [num |-> 0, den |-> 1])
            IN B(5 * maxSimilarity.num > 4 * maxSimilarity.den)
       ELSE "false"
  ELSE "false"

----------------------------------------------------------------------------
(* The collaborators of @typebot.io/variables *)

Open == <<"{", "{">>
Close == <<"}", "}">>

\* findUniqueVariable(variables)(value): the variable that the whole text
\* "{{name}}" names, if any
findUniqueVariable(vs, value) ==
  IF /\ IsStr(value)
     /\ Len(value.s) >= 4
     /\ SubSeq(value.s, 1, 2) = Open
     /\ SubSeq(value.s, Len(value.s) - 1, Len(value.s)) = Close
  THEN LET name == SubSeq(value.s, 3, Len(value.s) - 2)
           found == {i \in 1..Len(vs) : vs[i].name = name}
       IN IF found = {} THEN Undef ELSE vs[MinOf(found)].value
  ELSE Undef

\* The text a placeholder is replaced by
ValueText(vs, name) ==
  LET found == {i \in 1..Len(vs) : vs[i].name = name}
  IN IF found # {} /\ IsStr(vs[MinOf(found)].value)
     THEN vs[MinOf(found)].value.s
     ELSE <<>>

\* parseVariables(variables)(text): the text with every "{{name}}" replaced
\* by the current value of the variable; the empty text for no text
RECURSIVE parseVariables(_, _)
parseVariables(vs, text) ==
  IF ~IsStr(text) THEN <<>>
  ELSE LET s == text.s
           opens == {i \in 1..(Len(s) - 1) : SubSeq(s, i, i + 1) = Open}
       IN IF opens = {} THEN s
          ELSE LET i == MinOf(opens)
                   closes == {j \in (i + 2)..(Len(s) - 1) :
                                SubSeq(s, j, j + 1) = Close}
               IN IF closes = {} THEN s
                  ELSE LET j == MinOf(closes)
                       IN SubSeq(s, 1, i - 1)
                            \o ValueText(vs, SubSeq(s, i + 2, j - 1))
                            \o parseVariables(vs, Str(SubSeq(s, j + 2, Len(s))))

----------------------------------------------------------------------------
(* executeComparison *)

AbsentId == "<undefined>"
NoOperator == "<undefined>"

ComparisonOperators ==
  {"CONTAINS", "NOT_CONTAINS", "EQUAL", "NOT_EQUAL", "GREATER", "LESS",
   "IS_SET", "IS_EMPTY", "STARTS_WITH", "ENDS_WITH", "MATCHES_REGEX",
   "NOT_MATCH_REGEX", "STRING_SIMILARITY"}

AND == "AND"
OR == "OR"

Variants == {"executeCondition.ts", "part_000"}

\* variables.find((v) => v.id === comparison.variableId)?.value ?? null
InputValue(vs, variableId) ==
  LET found == {i \in 1..Len(vs) : vs[i].id = variableId}
  IN IF found = {} THEN Null
     ELSE IF isNotDefined(vs[MinOf(found)].value) THEN Null
     ELSE vs[MinOf(found)].value

NullText == {<<"u", "n", "d", "e", "f", "i", "n", "e", "d">>,
             <<"n", "u", "l", "l">>}

\* The right-hand side: null for the texts "undefined" and "null", else the
\* value of the variable named, else the interpolated text
TargetValue(vs, value) ==
  IF IsStr(value) /\ value.s \in NullText THEN Null
  ELSE LET unique == findUniqueVariable(vs, value)
       IN IF isDefined(unique) THEN unique
          ELSE Str(parseVariables(vs, value))

\* case ComparisonOperators.STRING_SIMILARITY of the two source files
similarity(vnt, inputValue, value) ==
  IF vnt = "part_000"
  THEN compararValores(inputValue, value)
  ELSE stringSimilarity(inputValue, value)

\* The switch on comparison.comparisonOperator
dispatch(vnt, host, op, inputValue, value) ==
  CASE op = "CONTAINS" ->
         IF IsArr(inputValue)
         THEN compare("equal", inputValue, value, "some")
         ELSE compare("contains", inputValue, value, "some")
    [] op = "NOT_CONTAINS" ->
         IF IsArr(inputValue)
         THEN compare("notEqual", inputValue, value, "every")
         ELSE compare("notContains", inputValue, value, "every")
    [] op = "EQUAL" -> compare("EQUAL", inputValue, value, "every")
    [] op = "NOT_EQUAL" -> compare("NOT_EQUAL", inputValue, value, "every")
    [] op = "GREATER" -> greater(inputValue, value, host)
    [] op = "LESS" -> less(inputValue, value, host)
    [] op = "IS_SET" -> isSet(inputValue)
    [] op = "IS_EMPTY" -> isEmpty(inputValue)
    [] op = "STARTS_WITH" -> compare("startsWith", inputValue, value, "every")
    [] op = "ENDS_WITH" -> compare("endsWith", inputValue, value, "every")
    [] op = "MATCHES_REGEX" -> compare("matchesRegex", inputValue, value, "some")
    [] op = "NOT_MATCH_REGEX" ->
         compare("notMatchRegex", inputValue, value, "every")
    [] op = "STRING_SIMILARITY" -> similarity(vnt, inputValue, value)

\* executeComparison without the early return on a missing variableId
executeComparison_anyId(vnt, vs, host, comparison) ==
  IF comparison.comparisonOperator = NoOperator THEN "false"
  ELSE dispatch(vnt, host, comparison.comparisonOperator,
                InputValue(vs, comparison.variableId),
                TargetValue(vs, comparison.value))

executeComparison(vnt, vs, host, comparison) ==
  IF comparison.variableId \in {AbsentId, ""} THEN "false"
  ELSE IF comparison.comparisonOperator = NoOperator THEN "false"
  ELSE dispatch(vnt, host, comparison.comparisonOperator,
                InputValue(vs, comparison.variableId),
                TargetValue(vs, comparison.value))

----------------------------------------------------------------------------
(* executeCondition *)

\* condition.comparisons: undefined, or a list
NoComparisons == [t |-> "undef"]
List(l) == [t |-> "list", l |-> l]

executeCondition(vnt, vs, host, cond) ==
  IF cond.comparisons.t = "undef" THEN "false"
  ELSE LET outs == [k \in 1..Len(cond.comparisons.l) |->
                      executeComparison(vnt, vs, host, cond.comparisons.l[k])]
       IN IF cond.logicalOperator = AND THEN Every(outs) ELSE Some(outs)

----------------------------------------------------------------------------
(* Inputs *)

MaxComparisons == 2
MaxStrLen == 2
MaxArrLen == 2
MaxPatLen == 4
MaxTargetLen == 3

SeqsUpTo(S, n) == UNION {[1..k -> S] : k \in 0..n}

Variable(id, name, value) == [id |-> id, name |-> name, value |-> value]
V1(value) == Variable("v1", <<"x">>, value)
V2(value) == Variable("v2", <<"y">>, value)
RefX == Str(<<"{", "{", "x", "}", "}">>)
RefY == Str(<<"{", "{", "y", "}", "}">>)
TextNull == Str(<<"n", "u", "l", "l">>)
TextUndefined == Str(<<"u", "n", "d", "e", "f", "i", "n", "e", "d">>)

Comparison(id, op, value) ==
  [variableId |-> id, comparisonOperator |-> op, value |-> value]

Condition(lop, comparisons) ==
  [logicalOperator |-> lop, comparisons |-> comparisons]

Scenario(vs, cond) == [variables |-> vs, condition |-> cond]

\* One comparison on v1 against a text, and against the value of v2
OnText(op, input, text) ==
  Scenario(<<V1(input)>>,
           Condition(AND, List(<<Comparison("v1", op, text)>>)))
OnVariable(op, input, target) ==
  Scenario(<<V1(input), V2(target)>>,
           Condition(AND, List(<<Comparison("v1", op, RefY)>>)))

(* Conditions of several comparisons, and every shape of one comparison *)
BaseValues ==
  {Undef, Null, Str(<<>>), Str(<<"a">>), Arr(<<>>), Arr(<< <<"a">> >>),
   Arr(<< <<"a">>, <<"b">> >>)}
BaseVariables == {<<>>} \cup {<<V1(v)>> : v \in BaseValues}
BaseTexts ==
  {Undef, TextNull, TextUndefined, Str(<<>>), Str(<<"a">>), Str(<<"(">>), RefX}
AnyComparison ==
  [variableId : {AbsentId, "", "v1"},
   comparisonOperator : ComparisonOperators \cup {NoOperator},
   value : BaseTexts]
ListedComparison ==
  {Comparison("v1", "IS_SET", Undef),
   Comparison("v1", "IS_EMPTY", Undef),
   Comparison("v1", "EQUAL", Str(<<"a">>)),
   Comparison("v1", "MATCHES_REGEX", Str(<<"(">>)),
   Comparison(AbsentId, "IS_EMPTY", Undef),
   Comparison("v1", NoOperator, Str(<<"a">>))}
BaseConditions ==
  [logicalOperator : {AND, OR},
   comparisons : {NoComparisons}
                   \cup {List(l) : l \in SeqsUpTo(ListedComparison, MaxComparisons)}
                   \cup {List(<<c>>) : c \in AnyComparison}]

----------------------------------------------------------------------------
(* One comparison of a given family of operators, on texts that make its   *)
(* cases happen                                                            *)

ArraysOf(Elements) == {Arr(a) : a \in SeqsUpTo(Elements, MaxArrLen)}

\* Letter case, blanks and the two encodings of the accented letter
TextAlphabet == {"a", "A", " ", "U+0301", "U+00E1"}
Texts == {Str(s) : s \in SeqsUpTo(TextAlphabet, MaxStrLen)}
TextElements == {<<>>, <<"a">>, <<"A">>, <<"a", "U+0301">>}
TextInputs == {Null} \cup Texts \cup ArraysOf(TextElements)
TextTargets == {Undef, TextNull, TextUndefined} \cup Texts
TextTargetValues == {Null} \cup ArraysOf(TextElements)

\* Numbers, signs, blanks, letters and dates
OrderAlphabet == {"1", "-", " ", "a"}
OrderSamples ==
  {<<"1", "0">>, <<"2">>,
   <<"1", "9", "7", "0", "-", "0", "1", "-", "0", "2">>,
   <<"1", "9", "7", "0", "-", "0", "1", "-", "0", "3">>,
   <<"1", "9", "7", "0", "-", "0", "1", "-", "3", "2">>}
OrderTexts ==
  {Str(s) : s \in SeqsUpTo(OrderAlphabet, MaxStrLen) \cup OrderSamples}
OrderInputs == {Null, Undef} \cup OrderTexts \cup ArraysOf({<<"a">>})
OrderTargets == {Undef, TextNull} \cup OrderTexts
OrderTargetValues == {Null} \cup ArraysOf({<<"a">>})

\* Patterns of literals, groups and the /pattern/flags form
InputAlphabet == {"a", "A"}
PatternAlphabet == {"a", "(", ")", "/", "i"}
RegexInputs ==
  {Null} \cup {Str(s) : s \in SeqsUpTo(InputAlphabet, MaxStrLen)}
    \cup ArraysOf({<<"a">>, <<"A">>})
RegexTargets ==
  {Undef, TextNull} \cup {Str(s) : s \in SeqsUpTo(PatternAlphabet, MaxPatLen)}
RegexTargetValues == {Null, Arr(<< <<"a">>, <<"(">> >>)}

\* Candidates separated by "|"
Hello == <<"H", "e", "l", "l", "o">>
Xyz == <<"X", "y", "z">>
HiHelloHey == <<"H", "i", "|", "H", "e", "l", "l", "o", "|", "H", "e", "y">>
SimilarityInputs ==
  {Null, Str(Hello), Str(Xyz)}
    \cup {Str(s) : s \in SeqsUpTo({"a", "b", "A"}, MaxStrLen)}
    \cup ArraysOf({<<"a">>})
SimilarityTargets ==
  {Undef, TextNull, Str(HiHelloHey)}
    \cup {Str(s) : s \in SeqsUpTo({"a", "b", "|"}, MaxTargetLen)}
SimilarityTargetValues == {Null} \cup ArraysOf({<<"a">>})

----------------------------------------------------------------------------
(* The calls *)

\* The texts whose Date.parse the host decides, among the inputs
HostStrings(vs, cond) ==
  LET values == {vs[i].value : i \in 1..Len(vs)}
      texts == IF cond.comparisons.t = "undef" THEN {}
               ELSE {cond.comparisons.l[k].value :
                       k \in 1..Len(cond.comparisons.l)}
  IN {v.s : v \in {w \in values \cup texts : IsStr(w)}}

HostAnswers == {NaN, Num(0), Num(86400000)}

InitOn(sc) ==
  /\ variables = sc.variables
  /\ condition = sc.condition
  /\ hostDate \in [{s \in HostStrings(variables, condition) :
                      Number(s).nan /\ HostParsed(s)} -> HostAnswers]
  /\ result = "none"
  /\ pc = "ready"

Init ==
  /\ variant \in Variants
  /\ \E vs \in BaseVariables, c \in BaseConditions : InitOn(Scenario(vs, c))

\* One comparison, on every pairing of an input with a target: the target is
\* the text of the comparison, or the value of the variable the text names
InitOfPairings(Ops, Inputs, TargetTexts, TargetValues, Sources) ==
  /\ variant \in Sources
  /\ \E op \in Ops, i \in Inputs :
       \/ \E x \in TargetTexts : InitOn(OnText(op, i, x))
       \/ \E v \in TargetValues : InitOn(OnVariable(op, i, v))

\* The operators of these families are the same code in both source files
InitContains ==
  InitOfPairings({"CONTAINS", "NOT_CONTAINS"},
                 TextInputs, TextTargets, TextTargetValues,
                 {"executeCondition.ts"})
InitEqual ==
  InitOfPairings({"EQUAL", "NOT_EQUAL"},
                 TextInputs, TextTargets, TextTargetValues,
                 {"executeCondition.ts"})
InitOrder ==
  InitOfPairings({"GREATER", "LESS"},
                 OrderInputs, OrderTargets, OrderTargetValues,
                 {"executeCondition.ts"})
InitRegex ==
  InitOfPairings({"MATCHES_REGEX", "NOT_MATCH_REGEX"},
                 RegexInputs, RegexTargets, RegexTargetValues,
                 {"executeCondition.ts"})
InitSimilarity ==
  InitOfPairings({"STRING_SIMILARITY"},
                 SimilarityInputs, SimilarityTargets, SimilarityTargetValues,
                 Variants)

\* A call of executeCondition
Evaluate ==
  /\ pc = "ready"
  /\ result' = executeCondition(variant, variables, hostDate, condition)
  /\ pc' = "done"
  /\ UNCHANGED <<variant, variables, condition, hostDate>>

Next == Evaluate

Spec == Init /\ [][Next]_vars
SpecContains == InitContains /\ [][Next]_vars
SpecEqual == InitEqual /\ [][Next]_vars
SpecOrder == InitOrder /\ [][Next]_vars
SpecRegex == InitRegex /\ [][Next]_vars
SpecSimilarity == InitSimilarity /\ [][Next]_vars

----------------------------------------------------------------------------
(* The call that was made *)

Done == pc = "done"
Listed == condition.comparisons.t = "list"
Comparisons == condition.comparisons.l

\* The condition holds one comparison, and it has been evaluated
Single == Done /\ Listed /\ Len(Comparisons) = 1
Cmp1 == Comparisons[1]
Operator1 == Cmp1.comparisonOperator
Input1 == InputValue(variables, Cmp1.variableId)
Target1 == TargetValue(variables, Cmp1.value)

\* The comparison names a variable and an operator among Ops
SingleOf(Ops) == Single /\ Cmp1.variableId \notin {AbsentId, ""} /\ Operator1 \in Ops

\* What a comparison evaluates to on the bindings of the call
Outcome(c) == executeComparison(variant, variables, hostDate, c)

Negation(r) == IF r = "true" THEN "false" ELSE IF r = "false" THEN "true" ELSE r

----------------------------------------------------------------------------
(* C1: executeCondition returns false when comparisons is undefined; under *)
(* AND it returns true iff every comparison evaluates to true, under OR it *)
(* returns true iff at least one comparison evaluates to true.             *)
C1_Aggregation ==
  Done =>
    IF ~Listed THEN result = "false"
    ELSE IF condition.logicalOperator = AND
         THEN (result = "true") <=>
                (\A k \in 1..Len(Comparisons) : Outcome(Comparisons[k]) = "true")
         ELSE (result = "true") <=>
                (\E k \in 1..Len(Comparisons) : Outcome(Comparisons[k]) = "true")

\* C1, on the calls in which no comparison throws: the aggregation is the
\* one claimed, empty lists included
C1_AggregationWithoutThrow ==
  (Done /\ Listed
     /\ \A k \in 1..Len(Comparisons) : Outcome(Comparisons[k]) # "throw") =>
    IF condition.logicalOperator = AND
    THEN result = B(\A k \in 1..Len(Comparisons) : Outcome(Comparisons[k]) = "true")
    ELSE result = B(\E k \in 1..Len(Comparisons) : Outcome(Comparisons[k]) = "true")

(* C2: a comparison whose variableId is absent or empty, or whose          *)
(* comparisonOperator is undefined, evaluates to false and does not throw, *)
(* whatever its value and the bindings are.                                *)
C2_MissingFieldIsFalse ==
  (Single /\ (Cmp1.variableId \in {AbsentId, ""} \/ Operator1 = NoOperator)) =>
    result = "false"

C2_Witness ==
  /\ Single
  /\ Cmp1 = Comparison(AbsentId, "IS_EMPTY", Str(<<"(">>))
  /\ variables = <<V1(Str(<<"a">>))>>
  /\ result = "false"

(* C3: a malformed pattern never makes MATCHES_REGEX or NOT_MATCH_REGEX    *)
(* throw: with a non-empty scalar input MATCHES_REGEX returns false and    *)
(* NOT_MATCH_REGEX returns true.                                           *)
C3_MalformedRegexIsCaught ==
  (/\ SingleOf({"MATCHES_REGEX", "NOT_MATCH_REGEX"})
   /\ IsStr(Input1) /\ Input1.s # <<>>
   /\ IsStr(Target1) /\ Target1.s # <<>>
   /\ RegExpThrows(preprocessRegex(Target1.s).pattern,
                   preprocessRegex(Target1.s).flags)) =>
    result = (IF Operator1 = "MATCHES_REGEX" THEN "false" ELSE "true")

(* C4: on every input value of the compared variable, IS_SET and IS_EMPTY  *)
(* return opposite booleans.                                               *)
C4_IsSetIsEmptyComplement ==
  SingleOf({"IS_SET", "IS_EMPTY"}) =>
    /\ result \in {"true", "false"}
    /\ result # Outcome([Cmp1 EXCEPT !.comparisonOperator =
                           IF Operator1 = "IS_SET" THEN "IS_EMPTY" ELSE "IS_SET"])

C4_Witness ==
  /\ SingleOf({"IS_SET"})
  /\ variables = <<V1(Arr(<<>>))>>
  /\ result = "false"
  /\ Outcome([Cmp1 EXCEPT !.comparisonOperator = "IS_EMPTY"]) = "true"

(* C9: CONTAINS with an array input is an element-membership test: true    *)
(* iff an element of the input equals the target (or an element of an      *)
(* array target); for a null target it is false.                           *)
C9_ArrayContainsIsMembership ==
  (SingleOf({"CONTAINS"}) /\ IsArr(Input1)) =>
    result = B(\E i \in 1..Len(Input1.a) :
                 \/ IsStr(Target1)
                      /\ normalize(Input1.a[i]) = normalize(Target1.s)
                 \/ IsArr(Target1)
                      /\ \E j \in 1..Len(Target1.a) :
                           normalize(Input1.a[i]) = normalize(Target1.a[j]))

(* C10: NOT_MATCH_REGEX returns true whenever the target pattern is empty  *)
(* or null, for every scalar input value.                                  *)
C10_NotMatchEmptyPatternIsTrue ==
  (/\ SingleOf({"NOT_MATCH_REGEX"})
   /\ ~IsArr(Input1)
   /\ ~Truthy(Target1)) =>
    result = "true"

----------------------------------------------------------------------------
\* A non-empty string, or a non-empty array of non-empty strings
NonEmpty(v) ==
  \/ IsStr(v) /\ v.s # <<>>
  \/ IsArr(v) /\ v.a # <<>> /\ \A i \in 1..Len(v.a) : v.a[i] # <<>>

(* C5: for an input and a target that are both non-null and non-empty, in  *)
(* each of the four scalar/array combinations, NOT_CONTAINS is the         *)
(* negation of CONTAINS.                                                   *)
C5_NotContainsNegatesContains ==
  (SingleOf({"CONTAINS", "NOT_CONTAINS"}) /\ NonEmpty(Input1) /\ NonEmpty(Target1)) =>
    /\ result \in {"true", "false"}
    /\ result = Negation(Outcome([Cmp1 EXCEPT !.comparisonOperator =
                  IF Operator1 = "CONTAINS" THEN "NOT_CONTAINS" ELSE "CONTAINS"]))

C5_Witness ==
  /\ SingleOf({"NOT_CONTAINS"})
  /\ Input1 = Str(<<"A", " ">>)
  /\ Target1 = Arr(<< <<"A">>, <<"a", "U+0301">> >>)
  /\ result = "false"
  /\ Outcome([Cmp1 EXCEPT !.comparisonOperator = "CONTAINS"]) = "true"

\* A string that parses neither as a number nor as a date
Unparseable(s) == Number(s).nan /\ DateParse(s, hostDate).nan

(* C6: GREATER and LESS return false, without throwing, whenever the input *)
(* or the target is null or absent, and whenever a string operand parses   *)
(* neither as a number nor as a date, in every scalar/array combination.   *)
C6_OrderOnNonComparableIsFalse ==
  SingleOf({"GREATER", "LESS"}) =>
    /\ result \in {"true", "false"}
    /\ (\/ isNotDefined(Input1)
        \/ isNotDefined(Target1)
        \/ IsStr(Input1) /\ Unparseable(Input1.s)
        \/ IsStr(Target1) /\ Unparseable(Target1.s)) => result = "false"

C6_Witness ==
  /\ SingleOf({"LESS"})
  /\ Input1 = Str(<<"-", "1">>)
  /\ Target1 = Str(<<"1", "a">>)
  /\ hostDate[<<"1", "a">>] = NaN
  /\ result = "false"

\* The input is one of the candidates of the target
IsCandidate == IsStr(Input1) /\ IsStr(Target1)
                 /\ \E k \in 1..Len(split(Target1.s)) : split(Target1.s)[k] = Input1.s

(* C7 as stated: STRING_SIMILARITY with a scalar string input that is      *)
(* exactly one of the candidates of the target returns true, in both       *)
(* source files; "Hello" against "Hi|Hello|Hey" is true, "Xyz" is false.   *)
C7_ExactCandidateIsSimilar ==
  SingleOf({"STRING_SIMILARITY"}) =>
    /\ IsCandidate => result = "true"
    /\ (Input1 = Str(Hello) /\ Target1 = Str(HiHelloHey)) => result = "true"
    /\ (Input1 = Str(Xyz) /\ Target1 = Str(HiHelloHey)) => result = "false"

(* C7 as amended: STRING_SIMILARITY with a non-empty scalar string input   *)
(* that is exactly one of the candidates of the target returns true, in    *)
(* both source files; "Hello" against "Hi|Hello|Hey" is true, "Xyz" is     *)
(* false.                                                                  *)
C7_NonEmptyExactCandidateIsSimilar ==
  SingleOf({"STRING_SIMILARITY"}) =>
    /\ (IsCandidate /\ Input1.s # <<>>) => result = "true"
    /\ (Input1 = Str(Hello) /\ Target1 = Str(HiHelloHey)) => result = "true"
    /\ (Input1 = Str(Xyz) /\ Target1 = Str(HiHelloHey)) => result = "false"

C7_Witness ==
  /\ SingleOf({"STRING_SIMILARITY"})
  /\ variant = "part_000"
  /\ Input1 = Str(<<"b">>)
  /\ Target1 = Str(<<"b", "|", "a">>)
  /\ result = "true"

(* C8 as stated: EQUAL on two scalar strings that differ only in letter    *)
(* case or in leading/trailing whitespace returns true, and NOT_EQUAL      *)
(* returns false.                                                          *)
C8_EqualIgnoresCaseAndBlanks ==
  (/\ SingleOf({"EQUAL", "NOT_EQUAL"})
   /\ IsStr(Input1) /\ IsStr(Target1)
   /\ trim(toLowerCase(Input1.s)) = trim(toLowerCase(Target1.s))) =>
    result = B(Operator1 = "EQUAL")

(* C8 as amended: EQUAL on two scalar strings is sensitive to letter case  *)
(* and to leading/trailing whitespace and insensitive to the Unicode       *)
(* normalization form only: it returns true iff the two strings have the   *)
(* same NFC form, and NOT_EQUAL returns the opposite.                      *)
C8_EqualIsNormalizedExact ==
  (SingleOf({"EQUAL", "NOT_EQUAL"}) /\ IsStr(Input1) /\ IsStr(Target1)) =>
    result = B((Operator1 = "EQUAL") <=> (normalize(Input1.s) = normalize(Target1.s)))

C8_Witness ==
  /\ SingleOf({"EQUAL"})
  /\ Input1 = Str(<<"a", "U+0301">>)
  /\ Target1 = Str(<<"U+00E1">>)
  /\ result = "true"

(* C11: STRING_SIMILARITY is total over the shapes of its values: for an   *)
(* input that is a scalar string, an array or null and a target that is a  *)
(* scalar string, an array or null, it returns a boolean and never throws, *)
(* and it returns false whenever the input is not a scalar string, in both *)
(* source files.                                                           *)
C11_SimilarityIsTotal ==
  SingleOf({"STRING_SIMILARITY"}) =>
    /\ result \in {"true", "false"}
    /\ ~IsStr(Input1) => result = "false"

\* C11, source file by source file: part_000 is total; executeCondition.ts
\* throws exactly on a scalar string input with a target that is no string
C11_SimilarityThrowsOnlyOnSplit ==
  SingleOf({"STRING_SIMILARITY"}) =>
    /\ ~IsStr(Input1) => result = "false"
    /\ (result = "throw") <=>
         (variant = "executeCondition.ts" /\ IsStr(Input1) /\ ~IsStr(Target1))

====
